---- MODULE Spec2Model ----
(***************************************************************************)
(* Room / round state machine of the drawing-and-guessing game server      *)
(* (src/backend/server.py).                                                *)
(*                                                                         *)
(* Execution model: one asyncio event loop.  A coroutine runs without      *)
(* interruption from one suspension point to the next.  The suspension     *)
(* points are the two sleeps of the program (60 s in round_timer, 5 s in   *)
(* end_round), whose coroutines are the entries of `tasks`, and every      *)
(* await sio.emit that has a recipient (python-socketio awaits the sends   *)
(* to the recipients), whose coroutines are the entries of `awaits`.  An   *)
(* emit without a recipient, and sio.enter_room, complete without giving   *)
(* up the event loop.  A handler whose last statement is an emit has       *)
(* nothing left to do when that emit is over, so no coroutine is kept for  *)
(* it.  The packets of the emits go out in the order of the emits, so the  *)
(* suspended coroutines go on in that order; handlers called by the        *)
(* transport and coroutines whose sleep is over may run in between.        *)
(*                                                                         *)
(* Strings are sequences of one-character strings so that upper(),         *)
(* lower(), strip() and '_' * n are computed, not assumed.                 *)
(***************************************************************************)
EXTENDS Naturals, Integers, Sequences, FiniteSets, TLC

(* ------------------------------ bounds --------------------------------- *)

\* connections followed in the game specification Spec: two players, whole games
GameSids == 2

\* connections followed in SpecLeave: three players, the first rotation of a game
LeaveSids == 3

\* the value of current_round up to which SpecLeave follows a game
LeaveRounds == 1

\* coroutines asleep at the same time in SpecLeave
LeaveTasks == 1

\* connections followed in SpecLobby, where rosters fill up to max_players
LobbySids == 2

\* connections followed in SpecCanvas
CanvasSids == 3

\* connections followed in SpecChat
ChatSids == 3

\* the strokes a canvas holds in SpecCanvas
MaxStrokes == 2

\* the longest time_elapsed of a guess in SpecScore, in quarters of a second (80 s)
MaxQuarters == 320

\* coroutines asleep at the same time (round timers and inter-round delays)
MaxTasks == 2

\* the scores followed; a step that would take a score beyond is not taken
MaxScore == 300

\* coroutines in flight at the same time in Spec, SpecLeave, SpecLobby,
\* SpecCanvas and SpecChat: a handler or a timer is taken up when no coroutine
\* is suspended in an emit
MaxFlights == 1

\* coroutines in flight at the same time in SpecAwait: a handler or a timer is
\* taken up while another coroutine is suspended in an emit
AwaitFlights == 2

\* roster entries followed in SpecAwait
AwaitRoster == 3

(* --------------------------- program constants -------------------------- *)

\* room['max_players'] set by create_room
MAX_PLAYERS == 8

\* room['max_rounds'] set by create_room
MAX_ROUNDS == 3

\* end-of-round award to every guesser, and the drawer's bonus
GUESSER_AWARD == 100

DRAWER_BONUS == 50

\* speed points: max(MIN_POINTS, BASE_POINTS - int(time_elapsed * 2))
BASE_POINTS == 200

MIN_POINTS == 50

\* None in room['current_drawer_sid'] (sids are 1, 2, ...)
NoSid == 0

\* None in room['current_word'] (every WORD_BANK entry is non-empty)
NoWord == <<>>

(* ------------------------------ strings -------------------------------- *)

\* A str is a sequence of characters, a character a string of length one.  The
\* characters followed are those of Latin-1 (U+0000 to U+00FF) and what
\* str.upper() and str.lower() make of them, in turn: the Greek mu, capital
\* (U+039C) and small (U+03BC), and the capital Y with diaeresis (U+0178).

\* U+0178, which no string of a module can hold; it is written by its name,
\* which is no character
CapitalYDiaeresis == "U+0178"

\* the characters str.upper() changes: the small letters that have a capital
\* of their own in UpperCase, at the same place, and then the micro sign and
\* the sharp s
LowerCase == <<"a", "b", "c", "d", "e", "f", "g", "h", "i", "j", "k", "l", "m",
               "n", "o", "p", "q", "r", "s", "t", "u", "v", "w", "x", "y", "z",
               "à", "á", "â", "ã", "ä", "å", "æ", "ç", "è", "é", "ê", "ë", "ì",
               "í", "î", "ï", "ð", "ñ", "ò", "ó", "ô", "õ", "ö", "ø", "ù", "ú",
               "û", "ü", "ý", "þ", "μ", "ÿ", "µ", "ß">>

\* the characters str.lower() changes, each at the place of its small letter
UpperCase == <<"A", "B", "C", "D", "E", "F", "G", "H", "I", "J", "K", "L", "M",
               "N", "O", "P", "Q", "R", "S", "T", "U", "V", "W", "X", "Y", "Z",
               "À", "Á", "Â", "Ã", "Ä", "Å", "Æ", "Ç", "È", "É", "Ê", "Ë", "Ì",
               "Í", "Î", "Ï", "Ð", "Ñ", "Ò", "Ó", "Ô", "Õ", "Ö", "Ø", "Ù", "Ú",
               "Û", "Ü", "Ý", "Þ", "Μ", CapitalYDiaeresis>>

\* what str.upper() makes of the last characters of LowerCase: the Greek
\* capital mu, and two characters for the sharp s
Expanded == <<<<"Μ">>, <<"S", "S">>>>

\* the characters str.strip() takes off: str.isspace() is true of them
Whitespace == {"\t", "\n", "", "\f", "\r", "",
               "", "", "", " ", "", " "}

IndexIn(seq, x) == CHOOSE i \in 1..Len(seq) : seq[i] = x

InSeq(seq, x) == \E i \in 1..Len(seq) : seq[i] = x

\* str.upper() on one character: the str it becomes
UpperChar(ch) ==
    IF ~InSeq(LowerCase, ch) THEN <<ch>>
    ELSE IF IndexIn(LowerCase, ch) <= Len(UpperCase)
    THEN <<UpperCase[IndexIn(LowerCase, ch)]>>
    ELSE Expanded[IndexIn(LowerCase, ch) - Len(UpperCase)]

\* str.lower() on one character
LowerChar(ch) == IF InSeq(UpperCase, ch) THEN LowerCase[IndexIn(UpperCase, ch)] ELSE ch

\* str.upper()
RECURSIVE Upper(_)
Upper(s) == IF s = <<>> THEN <<>> ELSE UpperChar(Head(s)) \o Upper(Tail(s))

\* str.lower()
Lower(s) == [i \in 1..Len(s) |-> LowerChar(s[i])]

RECURSIVE LStrip(_)
LStrip(s) == IF s # <<>> /\ Head(s) \in Whitespace THEN LStrip(Tail(s)) ELSE s

RECURSIVE RStrip(_)
RStrip(s) == IF s # <<>> /\ s[Len(s)] \in Whitespace THEN RStrip(SubSeq(s, 1, Len(s) - 1)) ELSE s

\* str.strip()
Strip(s) == RStrip(LStrip(s))

\* '_' * n
Underscores(n) == [i \in 1..n |-> "_"]

(* ------------------------------- inputs -------------------------------- *)

\* data['room_code'] as clients send it
RawCodes == {<<"a">>, <<"A">>}

\* data['room_code'] as the clients of Spec, SpecLeave and SpecCanvas send it
GameCodes == {<<"a">>}

\* the entries of WORD_BANK the model draws from
WORD_BANK == {<<"c", "a", "t">>, <<"t", "r", "e", "e">>}

\* the entries random.choice yields in Spec, SpecLeave and SpecCanvas
GameWords == {<<"c", "a", "t">>}

\* data['guess'] as clients send it
RawGuesses == {<<"\t", "C", "A", "T", " ">>, <<"t", "r", "e", "e">>}

\* a guess of a capital E with acute accent between a no-break space and a
\* vertical tab
LatinGuess == <<" ", "É", "">>

\* data['guess'] as the clients of SpecAwait send it
AwaitGuesses == RawGuesses \cup {LatinGuess}

\* time_elapsed = now - round_start_time, in quarters of a second, at the
\* moments at which guesses arrive in the game specifications
ElapsedQuarters == {0}

Codes == {Upper(c) : c \in RawCodes}

\* stroke_data as draw_stroke builds it from data['points'], data['color'] and
\* data['width']
Strokes == {[points |-> <<1>>, color |-> "#000000", width |-> 3],
            [points |-> <<1, 2>>, color |-> "#ff0000", width |-> 5]}

(* ------------------------- players and rosters ------------------------- *)

\* one entry of room['players'] (the username, a display string, is left out)
Player(sid, is_host) == [sid |-> sid, score |-> 0, is_host |-> is_host]

\* the sids of a roster, in roster order
SidsOf(players) == [i \in 1..Len(players) |-> players[i].sid]

\* no entry occurs twice
Distinct(seq) == \A i, j \in 1..Len(seq) : seq[i] = seq[j] => i = j

HasSid(players, sid) == \E i \in 1..Len(players) : players[i].sid = sid

\* next((p for p in players if p['sid'] == sid), None): position of the first match, 0 for None
FirstWithSid(players, sid) ==
    IF HasSid(players, sid)
    THEN CHOOSE i \in 1..Len(players) :
            /\ players[i].sid = sid
            /\ \A j \in 1..(i - 1) : players[j].sid # sid
    ELSE 0

\* player['score'] += n for the entry at position i (no entry when i = 0)
AddScore(players, i, n) ==
    [j \in 1..Len(players) |->
        IF j = i THEN [players[j] EXCEPT !.score = @ + n] ELSE players[j]]

\* [p for p in room['players'] if p['sid'] != sid]
RECURSIVE WithoutSid(_, _)
WithoutSid(players, sid) ==
    IF players = <<>> THEN <<>>
    ELSE IF Head(players).sid = sid THEN WithoutSid(Tail(players), sid)
         ELSE <<Head(players)>> \o WithoutSid(Tail(players), sid)

\* insertion of p before the entries of its own score
RECURSIVE InsertBeforeTies(_, _)
InsertBeforeTies(sorted, p) ==
    IF sorted = <<>> THEN <<p>>
    ELSE IF Head(sorted).score > p.score
         THEN <<Head(sorted)>> \o InsertBeforeTies(Tail(sorted), p)
         ELSE <<p>> \o sorted

\* insertion of p behind every entry whose score is at least p's
RECURSIVE InsertByScore(_, _)
InsertByScore(sorted, p) ==
    IF sorted = <<>> THEN <<p>>
    ELSE IF Head(sorted).score >= p.score
         THEN <<Head(sorted)>> \o InsertByScore(Tail(sorted), p)
         ELSE <<p>> \o sorted

\* sorted(players, key=lambda p: p['score'], reverse=True): stable, descending
RECURSIVE SortedByScore(_)
SortedByScore(players) ==
    IF players = <<>> THEN <<>>
    ELSE InsertByScore(SortedByScore(SubSeq(players, 1, Len(players) - 1)),
                       players[Len(players)])

(* ------------------------------ emissions ------------------------------ *)

\* no stroke in a payload
NoStroke == [points |-> <<>>, color |-> "", width |-> 0]

\* one sio.emit: the event, the connections it is delivered to, the room the
\* emitting call works on, and the payload fields (left empty where the event
\* does not carry them)
Emission(ev, to, code) ==
    [ev |-> ev, to |-> to, code |-> code, word |-> NoWord, drawer |-> NoSid,
     players |-> <<>>, points |-> 0, correct |-> FALSE, text |-> <<>>, message |-> "",
     stroke |-> NoStroke]

\* the connections in the socket room of a roster: enter_room on create and
\* join, removal by the transport on disconnect
Members(players) == {players[i].sid : i \in 1..Len(players)}

\* sio.emit('error', {'message': message}, to=sid)
ErrorTo(sid, code, message) == [Emission("error", {sid}, code) EXCEPT !.message = message]

(* -------------------------------- rooms -------------------------------- *)

\* the dict create_room stores in game_rooms
NewRoom(sid) ==
    [players |-> <<Player(sid, TRUE)>>,
     max_players |-> MAX_PLAYERS,
     game_started |-> FALSE,
     current_round |-> 0,
     max_rounds |-> MAX_ROUNDS,
     current_drawer_index |-> 0,
     current_drawer_sid |-> NoSid,
     current_word |-> NoWord,
     strokes |-> <<>>,
     guessed_players |-> <<>>,
     round_start_time |-> "None"]

\* room_code in game_rooms
Registered(rooms, code) == code \in DOMAIN rooms

\* game_rooms[room_code] = room
Store(rooms, code, room) ==
    [c \in DOMAIN rooms \cup {code} |-> IF c = code THEN room ELSE rooms[c]]

\* the room stays registered with an empty roster
Emptied(rooms, code) == [rooms EXCEPT ![code].players = <<>>]

\* del game_rooms[room_code]
Delete(rooms, code) == [c \in DOMAIN rooms \ {code} |-> rooms[c]]

\* room=room_code of an emit: the connections in the socket room of that code,
\* which are the open connections among the players of the registered room
Audience(rooms, conn, code) ==
    IF Registered(rooms, code) THEN Members(rooms[code].players) \cap conn ELSE {}

(* ------------------------------ coroutines ----------------------------- *)

\* a coroutine that is not running.  kind "timer": round_timer in its
\* sleep(60); kind "sleep": end_round in its sleep(5); kind "emit": a coroutine
\* suspended in an await sio.emit, with what it goes on with:
\*   at      the event of that emit
\*   sid     the sid the handler was called with
\*   drawer  drawer['sid'] of start_new_round
\*   rest    the sids of the players a for loop has still to visit
\*   live    the list that loop runs over is still room['players'] (join_room
\*           appends to the list, disconnect puts another list in its place)
\*   points, stroke   the locals of send_guess and draw_stroke
\*   from    "disconnect" when start_new_round was called by disconnect
\*   todo    the room codes disconnect's loop has still to visit
\* tag is "gone" when the dict the coroutine holds in `room` has been deleted
\* from game_rooms; word and flag then keep what the coroutine will read in
\* that dict (current_word; the outcome of disconnect's test of the drawer)
Task(kind, code, tag) ==
    [kind |-> kind, code |-> code, tag |-> tag,
     at |-> "", sid |-> NoSid, drawer |-> NoSid, rest |-> <<>>, live |-> FALSE,
     points |-> 0, stroke |-> NoStroke, from |-> "", todo |-> <<>>,
     word |-> NoWord, flag |-> FALSE]

\* the coroutine of a handler called with sid for room code, suspended in its
\* emit of event `at`
Suspension(at, sid, code) == [Task("emit", code, "") EXCEPT !.at = at, !.sid = sid]

\* the dict the coroutine holds is the one registered under its code
Held(co) == co.tag # "gone"

\* what a run of a coroutine leaves behind: the registry, the emissions in
\* order, whether it raised, the coroutines it left sleeping, the coroutine
\* itself if it is suspended in an emit, and the rooms whose 'players' it has
\* bound to another list
Result(rooms, out, fault, spawn) ==
    [rooms |-> rooms, out |-> out, fault |-> fault, spawn |-> spawn,
     wait |-> <<>>, rebound |-> {}]

\* the run r, after the emission e
Emitting(e, r) == [r EXCEPT !.out = <<e>> \o @]

\* the run r, after asyncio.create_task(round_timer(...))
Spawning(timer, r) == [r EXCEPT !.spawn = <<timer>> \o @]

\* the run r, after room['players'] = [...] in room code
Rebinding(code, r) == [r EXCEPT !.rebound = @ \cup {code}]

\* a handler that never comes to random.choice is given no words
NoWords == <<>>

RECURSIVE Resume(_, _, _, _)

\* await sio.emit(...) of emission e by a coroutine that goes on as co: it is
\* suspended if the emit has a recipient and goes on at once if it has none
Await(rooms, conn, e, co, words) ==
    IF e.to \cap conn # {}
    THEN [Result(rooms, <<e>>, FALSE, <<>>) EXCEPT !.wait = <<co>>]
    ELSE Emitting(e, Resume(rooms, conn, co, words))

(* ------------------------- the round operations ------------------------ *)

\* the word sent whole
Unmasked(word) == word

\* '_' * len(word)
MaskedWord(word) == Underscores(Len(word))

RECURSIVE disconnect_loop(_, _, _, _)

\* start_new_round returns to its caller: to disconnect's loop, or to
\* start_game or end_round, which have nothing left to do
Returned(rooms, conn, co, words) ==
    IF co.from = "disconnect" THEN disconnect_loop(rooms, conn, co, words)
    ELSE Result(rooms, <<>>, FALSE, <<>>)

\* start_new_round from its loop over the other players on: the new_round
\* emissions with the masked word, then create_task(round_timer(room_code, 60))
RECURSIVE MaskedRounds(_, _, _, _)
MaskedRounds(rooms, conn, co, words) ==
    IF co.rest = <<>>
    THEN Spawning(Task("timer", co.code, co.tag), Returned(rooms, conn, co, words))
    ELSE LET next == [co EXCEPT !.rest = Tail(@)]
             word == IF Held(co) THEN rooms[co.code].current_word ELSE co.word
         IN  IF Head(co.rest) = co.drawer
             THEN MaskedRounds(rooms, conn, next, words)
             ELSE Await(rooms, conn,
                        [Emission("new_round", {Head(co.rest)}, co.code)
                           EXCEPT !.word = MaskedWord(word), !.drawer = co.drawer],
                        next, words)

\* start_new_round after its emit to the drawer: for player in room['players']
others_round(rooms, conn, co, words) ==
    MaskedRounds(rooms, conn,
                 [co EXCEPT !.at = "new_round_others",
                            !.rest = IF Held(co) THEN SidsOf(rooms[co.code].players) ELSE <<>>,
                            !.live = Held(co)],
                 words)

\* start_new_round(room_code) up to its emit to the drawer; words[room_code] is
\* the outcome of random.choice(WORD_BANK), co the coroutine that makes the call
start_new_round(rooms, conn, co, words) ==
    IF ~Registered(rooms, co.code) THEN Returned(rooms, conn, co, words)
    ELSE LET room == rooms[co.code] IN
         IF room.current_drawer_index >= Len(room.players)
         THEN \* IndexError at room['players'][room['current_drawer_index']]
              Result(rooms, <<>>, TRUE, <<>>)
         ELSE LET drawer == room.players[room.current_drawer_index + 1]
                  word == words[co.code]
                  started == [room EXCEPT !.current_drawer_sid = drawer.sid,
                                          !.current_word = word,
                                          !.strokes = <<>>,
                                          !.guessed_players = <<>>,
                                          !.round_start_time = "set"]
              IN  Await(Store(rooms, co.code, started), conn,
                        [Emission("new_round", {drawer.sid}, co.code)
                           EXCEPT !.word = word, !.drawer = drawer.sid],
                        [co EXCEPT !.kind = "emit", !.at = "new_round", !.tag = "cur",
                                   !.drawer = drawer.sid, !.rest = <<>>, !.live = FALSE,
                                   !.word = NoWord, !.flag = FALSE],
                        words)

\* end_game after its emit of game_end: the reset.  The reset of a dict that is
\* no longer in game_rooms changes no room
end_game_reset(rooms, conn, co, words) ==
    IF ~Held(co) THEN Result(rooms, <<>>, FALSE, <<>>)
    ELSE LET room == rooms[co.code]
             reset == [room EXCEPT
                         !.game_started = FALSE,
                         !.current_round = 0,
                         !.current_drawer_index = 0,
                         !.players = [i \in 1..Len(room.players) |->
                                         [room.players[i] EXCEPT !.score = 0]]]
         IN  Result(Store(rooms, co.code, reset), <<>>, FALSE, <<>>)

\* end_game(room_code) up to its emit of game_end
end_game(rooms, conn, code, words) ==
    IF ~Registered(rooms, code) THEN Result(rooms, <<>>, FALSE, <<>>)
    ELSE Await(rooms, conn,
               [Emission("game_end", Audience(rooms, conn, code), code)
                  EXCEPT !.players = SortedByScore(rooms[code].players)],
               Suspension("game_end", NoSid, code), words)

\* the award given to every player of the roster once somebody has guessed
AwardRoster(players, guessed) ==
    IF guessed = <<>> THEN players
    ELSE [i \in 1..Len(players) |-> [players[i] EXCEPT !.score = @ + GUESSER_AWARD]]

\* for player_sid in room['guessed_players']: ... player['score'] += 100
RECURSIVE AwardGuessers(_, _)
AwardGuessers(players, guessed) ==
    IF guessed = <<>> THEN players
    ELSE AwardGuessers(AddScore(players, FirstWithSid(players, Head(guessed)), GUESSER_AWARD),
                       Tail(guessed))

\* end_round after its emit of round_end, to its asyncio.sleep(5) or into
\* end_game.  It goes on with the dict it looked up before the emit; when that
\* dict has been deleted from game_rooms, which disconnect does when it has
\* emptied room['players'], the roster in it is empty
end_round_from_emit(rooms, conn, co, words) ==
    IF ~Held(co)
    THEN \* ZeroDivisionError at (... + 1) % len(room['players'])
         Result(rooms, <<>>, TRUE, <<>>)
    ELSE LET room == rooms[co.code]
             index == (room.current_drawer_index + 1) % Len(room.players)
             round == IF index = 0 THEN room.current_round + 1 ELSE room.current_round
             moved == [room EXCEPT !.current_drawer_index = index, !.current_round = round]
         IN  IF round > room.max_rounds
             THEN end_game(Store(rooms, co.code, moved), conn, co.code, words)
             ELSE Result(Store(rooms, co.code, moved), <<>>, FALSE,
                         <<Task("sleep", co.code, "sleep")>>)

\* end_round(room_code) up to its emit of round_end
end_round(rooms, conn, code, words) ==
    IF ~Registered(rooms, code) THEN Result(rooms, <<>>, FALSE, <<>>)
    ELSE LET room == rooms[code]
             awarded == AwardGuessers(room.players, room.guessed_players)
             scored == IF Len(room.guessed_players) > 0
                       THEN AddScore(awarded, FirstWithSid(awarded, room.current_drawer_sid),
                                     DRAWER_BONUS)
                       ELSE awarded
         IN  Await(Store(rooms, code, [room EXCEPT !.players = scored]), conn,
                   [Emission("round_end", Audience(rooms, conn, code), code)
                      EXCEPT !.word = room.current_word, !.players = scored],
                   Suspension("round_end", NoSid, code), words)

(* ----------------------------- the handlers ---------------------------- *)

\* create_room that registers the room over the one that exists
create_room_over(rooms, sid, code) ==
    Result(Store(rooms, code, NewRoom(sid)),
           <<[Emission("room_created", {sid}, code) EXCEPT !.players = NewRoom(sid).players]>>,
           FALSE, <<>>)

\* create_room(sid, data), room_code = data['room_code'].upper()
create_room_call(rooms, sid, code) ==
    IF Registered(rooms, code)
    THEN Result(rooms, <<ErrorTo(sid, code, "Room already exists")>>, FALSE, <<>>)
    ELSE Result(Store(rooms, code, NewRoom(sid)),
                <<[Emission("room_created", {sid}, code)
                     EXCEPT !.players = NewRoom(sid).players]>>,
                FALSE, <<>>)

\* a roster that is refused only once it is over max_players
OverFull(room) == Len(room.players) > room.max_players

\* len(room['players']) >= room['max_players']
RoomFull(room) == Len(room.players) >= room.max_players

\* join_room after its emit of room_joined: player_joined to the room, with
\* room['players'] as it is by then
join_room_notify(rooms, conn, co, words) ==
    Result(rooms,
           <<[Emission("player_joined", Audience(rooms, conn, co.code), co.code)
                EXCEPT !.players = IF Held(co) THEN rooms[co.code].players ELSE <<>>]>>,
           FALSE, <<>>)

\* join_room(sid, data) up to its emit of room_joined
join_room_call(rooms, conn, sid, code) ==
    IF ~Registered(rooms, code)
    THEN Result(rooms, <<ErrorTo(sid, code, "Room not found")>>, FALSE, <<>>)
    ELSE LET room == rooms[code] IN
         IF RoomFull(room)
         THEN Result(rooms, <<ErrorTo(sid, code, "Room is full")>>, FALSE, <<>>)
         ELSE IF room.game_started
         THEN Result(rooms, <<ErrorTo(sid, code, "Game already started")>>, FALSE, <<>>)
         ELSE LET players == Append(room.players, Player(sid, FALSE))
              IN  Await(Store(rooms, code, [room EXCEPT !.players = players]), conn,
                        [Emission("room_joined", {sid}, code) EXCEPT !.players = players],
                        Suspension("room_joined", sid, code), NoWords)

\* any player of the roster, host or not
IsPlayer(players, sid) == \E i \in 1..Len(players) : players[i].sid = sid

\* any(p['sid'] == sid and p['is_host'] for p in room['players'])
IsHost(players, sid) ==
    \E i \in 1..Len(players) : players[i].sid = sid /\ players[i].is_host

\* start_game(sid, data) up to its emit of game_started; after it comes
\* start_new_round(room_code)
start_game_call(rooms, conn, sid, code, words) ==
    IF ~Registered(rooms, code)
    THEN Result(rooms, <<ErrorTo(sid, code, "Room not found")>>, FALSE, <<>>)
    ELSE LET room == rooms[code] IN
         IF ~IsHost(room.players, sid)
         THEN Result(rooms, <<ErrorTo(sid, code, "Only host can start game")>>, FALSE, <<>>)
         ELSE IF Len(room.players) < 2
         THEN Result(rooms, <<ErrorTo(sid, code, "Need at least 2 players")>>, FALSE, <<>>)
         ELSE Await(Store(rooms, code, [room EXCEPT !.game_started = TRUE,
                                                    !.current_round = 1]),
                    conn,
                    Emission("game_started", Audience(rooms, conn, code), code),
                    Suspension("game_started", sid, code), words)

\* int(time_elapsed * 2) for a time_elapsed of that many quarters of a second
Ticks(quarters) == quarters \div 2

\* max(50, 200 - int(time_elapsed * 2)), ticks = int(time_elapsed * 2)
SpeedPoints(ticks) == IF BASE_POINTS - ticks > MIN_POINTS THEN BASE_POINTS - ticks ELSE MIN_POINTS

\* the guess as it was typed
TypedGuess(raw) == raw

\* data['guess'].lower().strip()
NormalGuess(raw) == Strip(Lower(raw))

\* a guess is taken from a player who has guessed already
GuessAgain(room, sid) == FALSE

\* sid in room['guessed_players']
AlreadyGuessed(room, sid) == InSeq(room.guessed_players, sid)

\* a guess is taken from the drawer
DrawerMayGuess(room, sid) == FALSE

\* if room['current_drawer_sid'] == sid: return
DrawerGuess(room, sid) == room.current_drawer_sid = sid

\* send_guess after its emit of guess_result for a correct guess: if all
\* players guessed, end_round.  In a dict that is no longer in game_rooms the
\* roster is empty, and len(room['players']) - 1 is the length of no list
all_guessed(rooms, conn, co, words) ==
    IF /\ Held(co)
       /\ Len(rooms[co.code].guessed_players) = Len(rooms[co.code].players) - 1
    THEN end_round(rooms, conn, co.code, words)
    ELSE Result(rooms, <<>>, FALSE, <<>>)

\* send_guess after its emit of correct_guess: guess_result to the sender
correct_result(rooms, conn, co, words) ==
    Await(rooms, conn,
          [Emission("guess_result", {co.sid}, co.code)
             EXCEPT !.correct = TRUE, !.points = co.points],
          [co EXCEPT !.at = "guess_result"], words)

\* send_guess after its emit of chat_message: guess_result to the sender
wrong_result(rooms, conn, co, words) ==
    Result(rooms, <<Emission("guess_result", {co.sid}, co.code)>>, FALSE, <<>>)

\* send_guess(sid, data) up to its first emit; ticks = int((now - round_start_time) * 2)
send_guess_call(rooms, conn, sid, code, raw, ticks) ==
    IF ~Registered(rooms, code) THEN Result(rooms, <<>>, FALSE, <<>>)
    ELSE LET room == rooms[code]
             guess == NormalGuess(raw)
             at == FirstWithSid(room.players, sid)
         IN
         IF DrawerGuess(room, sid) THEN Result(rooms, <<>>, FALSE, <<>>)
         ELSE IF AlreadyGuessed(room, sid) THEN Result(rooms, <<>>, FALSE, <<>>)
         ELSE IF at = 0 THEN Result(rooms, <<>>, FALSE, <<>>)
         ELSE IF room.current_word = NoWord
         THEN \* AttributeError at room['current_word'].lower()
              Result(rooms, <<>>, TRUE, <<>>)
         ELSE IF guess = Lower(room.current_word)
         THEN LET points == SpeedPoints(ticks)
                  guessed == [room EXCEPT
                                !.guessed_players = Append(@, sid),
                                !.players = AddScore(@, at, points)]
              IN  Await(Store(rooms, code, guessed), conn,
                        [Emission("correct_guess", Audience(rooms, conn, code), code)
                           EXCEPT !.points = points],
                        [Suspension("correct_guess", sid, code) EXCEPT !.points = points],
                        NoWords)
         ELSE Await(rooms, conn,
                    [Emission("chat_message", Audience(rooms, conn, code), code)
                       EXCEPT !.text = guess],
                    Suspension("chat_message", sid, code), NoWords)

\* next((p for r in game_rooms.values() for p in r['players'] if p['sid'] == sid), None)
InAnyRoom(rooms, sid) == \E c \in DOMAIN rooms : HasSid(rooms[c].players, sid)

\* send_message(sid, data)
send_message_call(rooms, conn, sid, code, text) ==
    IF ~Registered(rooms, code) THEN Result(rooms, <<>>, FALSE, <<>>)
    ELSE IF ~InAnyRoom(rooms, sid) THEN Result(rooms, <<>>, FALSE, <<>>)
    ELSE Result(rooms,
                <<[Emission("chat_message", Audience(rooms, conn, code), code)
                     EXCEPT !.text = text]>>,
                FALSE, <<>>)

\* draw_stroke from its loop on: for player in room['players']: stroke_drawn
\* to every player but the sender
RECURSIVE StrokeRelays(_, _, _, _)
StrokeRelays(rooms, conn, co, words) ==
    IF co.rest = <<>> THEN Result(rooms, <<>>, FALSE, <<>>)
    ELSE LET next == [co EXCEPT !.rest = Tail(@)] IN
         IF Head(co.rest) = co.sid
         THEN StrokeRelays(rooms, conn, next, words)
         ELSE Await(rooms, conn,
                    [Emission("stroke_drawn", {Head(co.rest)}, co.code)
                       EXCEPT !.stroke = co.stroke],
                    next, words)

\* any sender may draw and clear
AnySender(room, sid) == TRUE

\* room['current_drawer_sid'] == sid
IsDrawer(room, sid) == room.current_drawer_sid = sid

\* draw_stroke(sid, data)
draw_stroke_call(rooms, conn, sid, code, stroke) ==
    IF ~Registered(rooms, code) THEN Result(rooms, <<>>, FALSE, <<>>)
    ELSE LET room == rooms[code] IN
         IF ~IsDrawer(room, sid) THEN Result(rooms, <<>>, FALSE, <<>>)
         ELSE StrokeRelays(Store(rooms, code, [room EXCEPT !.strokes = Append(@, stroke)]),
                           conn,
                           [Suspension("stroke_drawn", sid, code)
                              EXCEPT !.stroke = stroke,
                                     !.rest = SidsOf(room.players),
                                     !.live = TRUE],
                           NoWords)

\* clear_canvas(sid, data)
clear_canvas_call(rooms, conn, sid, code) ==
    IF ~Registered(rooms, code) THEN Result(rooms, <<>>, FALSE, <<>>)
    ELSE LET room == rooms[code] IN
         IF ~IsDrawer(room, sid) THEN Result(rooms, <<>>, FALSE, <<>>)
         ELSE Result(Store(rooms, code, [room EXCEPT !.strokes = <<>>]),
                     <<Emission("canvas_cleared", Audience(rooms, conn, code), code)>>,
                     FALSE, <<>>)

\* disconnect after its emit of player_left: if the drawer left, start a new
\* round; then the loop goes on
drawer_left(rooms, conn, co, words) ==
    LET left == IF Held(co)
                THEN /\ rooms[co.code].current_drawer_sid = co.sid
                     /\ rooms[co.code].game_started
                ELSE co.flag
    IN  IF left THEN start_new_round(rooms, conn, co, words)
        ELSE disconnect_loop(rooms, conn, co, words)

\* for room_code, room in list(game_rooms.items()): over the rooms still to
\* visit, co.todo, up to the next emit of player_left
disconnect_loop(rooms, conn, co, words) ==
    IF co.todo = <<>> THEN Result(rooms, <<>>, FALSE, <<>>)
    ELSE LET code == Head(co.todo)
             next == [co EXCEPT !.kind = "emit", !.at = "player_left", !.code = code,
                                !.tag = "", !.todo = Tail(@), !.drawer = NoSid,
                                !.rest = <<>>, !.live = FALSE, !.word = NoWord,
                                !.flag = FALSE]
             room == rooms[code]
             players == WithoutSid(room.players, co.sid)
             left == Store(rooms, code, [room EXCEPT !.players = players])
         IN  Rebinding(code,
                IF Len(players) < Len(room.players)
                THEN IF Len(players) = 0
                     THEN disconnect_loop(Delete(rooms, code), conn, next, words)
                     ELSE Await(left, conn,
                                [Emission("player_left", Audience(left, conn, code), code)
                                   EXCEPT !.players = players],
                                next, words)
                ELSE disconnect_loop(left, conn, next, words))

\* disconnect(sid); order is list(game_rooms), the room codes in the order in
\* which they were registered
disconnect_call(rooms, conn, sid, order, words) ==
    disconnect_loop(rooms, conn,
                    [Task("emit", <<>>, "") EXCEPT !.sid = sid, !.from = "disconnect",
                                                    !.todo = order],
                    words)

\* the coroutine co goes on after the emit it was suspended in
Resume(rooms, conn, co, words) ==
    CASE co.at = "room_joined"      -> join_room_notify(rooms, conn, co, words)
      [] co.at = "game_started"     -> start_new_round(rooms, conn, co, words)
      [] co.at = "new_round"        -> others_round(rooms, conn, co, words)
      [] co.at = "new_round_others" -> MaskedRounds(rooms, conn, co, words)
      [] co.at = "round_end"        -> end_round_from_emit(rooms, conn, co, words)
      [] co.at = "game_end"         -> end_game_reset(rooms, conn, co, words)
      [] co.at = "correct_guess"    -> correct_result(rooms, conn, co, words)
      [] co.at = "guess_result"     -> all_guessed(rooms, conn, co, words)
      [] co.at = "chat_message"     -> wrong_result(rooms, conn, co, words)
      [] co.at = "stroke_drawn"     -> StrokeRelays(rooms, conn, co, words)
      [] co.at = "player_left"      -> drawer_left(rooms, conn, co, words)

\* the run r of a coroutine taken to its end, with no other coroutine running
\* while it is suspended in its emits: its emissions and the coroutines it
\* leaves sleeping, in order
RECURSIVE Finish(_, _, _)
Finish(r, conn, words) ==
    IF r.wait = <<>> THEN r
    ELSE LET s == Resume(r.rooms, conn, r.wait[1], words)
         IN  Finish([s EXCEPT !.out = r.out \o @,
                              !.fault = r.fault \/ @,
                              !.spawn = r.spawn \o @,
                              !.rebound = r.rebound \cup @],
                    conn, words)

(* ------------------------------- state --------------------------------- *)

VARIABLES
    game_rooms,   \* the dict game_rooms: room_code -> room
    order,        \* the keys of game_rooms in the order in which they were inserted
    issued,       \* how many connections the transport has accepted (sids 1..issued)
    connected,    \* the sids whose connection is open
    tasks,        \* the sleeping coroutines, in the order in which they wake:
                  \* round_timer in its sleep(60) ("timer"), end_round in its
                  \* sleep(5) ("sleep")
    awaits,       \* the coroutines suspended in an emit, oldest first
    last,         \* the handler or coroutine step taken last and its arguments
    out,          \* what that step emitted, in order
    fault,        \* whether that step ended in an unhandled exception
    game          \* per room code, a record of the rounds played (history only)

vars == <<game_rooms, order, issued, connected, tasks, awaits, last, out, fault, game>>

\* the history kept for a room: whether start_game ever succeeded in it,
\* whether the last one came while the game was started already, the
\* game_end emissions and the rounds started since the last successful
\* start_game, the roster at that start_game, and the roster and current_round
\* at the start of the latest round, and whether the latest round has been
\* started and not ended by an end_round since
NoGame == [started |-> FALSE, restarted |-> FALSE, ends |-> 0, rounds |-> 0,
           roster0 |-> <<>>, prev_roster |-> <<>>, prev_round |-> 0, open |-> FALSE]

\* a step: the handler, or for a coroutine that goes on the point it goes on
\* from, the sender, the room code, the coroutine's tag, and for a guess the
\* text and the time since the round started
Step(op, sid, code, tag) ==
    [op |-> op, sid |-> sid, code |-> code, tag |-> tag, text |-> <<>>, elapsed |-> 0]

Init ==
    /\ game_rooms = <<>>
    /\ order = <<>>
    /\ issued = 0
    /\ connected = {}
    /\ tasks = <<>>
    /\ awaits = <<>>
    /\ last = Step("init", NoSid, <<>>, "")
    /\ out = <<>>
    /\ fault = FALSE
    /\ game = [c \in Codes |-> NoGame]

Emitted(o, ev, code) == \E i \in 1..Len(o) : o[i].ev = ev /\ o[i].code = code

\* start_new_round has started a round in room code: its new_round to the
\* drawer is among the emissions o
RoundStarted(o, code) ==
    \E i \in 1..Len(o) : o[i].ev = "new_round" /\ o[i].code = code /\ o[i].to = {o[i].drawer}

Min(a, b) == IF a < b THEN a ELSE b

\* the history of room `code` after a step that turned the registry `rooms`
\* into r.rooms and emitted r.out
NextGame(g, rooms, r, code) ==
    IF ~Registered(r.rooms, code) THEN NoGame
    ELSE LET begun == Emitted(r.out, "game_started", code)
             round == IF RoundStarted(r.out, code) THEN 1 ELSE 0
             ended == IF Emitted(r.out, "game_end", code) THEN 1 ELSE 0
         IN  [started |-> g.started \/ begun,
              restarted |-> IF begun THEN rooms[code].game_started ELSE g.restarted,
              ends |-> IF begun THEN 0 ELSE Min(2, g.ends + ended),
              rounds |-> IF begun THEN round
                         ELSE IF ended = 1 THEN 0
                         ELSE g.rounds + round,
              roster0 |-> IF begun THEN SidsOf(rooms[code].players) ELSE g.roster0,
              prev_roster |-> IF round = 1 THEN SidsOf(r.rooms[code].players) ELSE g.prev_roster,
              prev_round |-> IF round = 1 THEN r.rooms[code].current_round ELSE g.prev_round,
              open |-> IF round = 1 THEN TRUE
                       ELSE IF Emitted(r.out, "round_end", code) THEN FALSE
                       ELSE g.open]

\* the timers of the round in progress ("cur"), and the start_new_round that
\* has still to create its timer, are marked when a step ends that round or
\* starts another round in the room: "early" when the round was cut short by
\* the last guess or by the drawer leaving, "old" otherwise
Retagged(pending, o, tag) ==
    [i \in 1..Len(pending) |->
        IF /\ pending[i].tag = "cur"
           /\ (Emitted(o, "round_end", pending[i].code) \/ RoundStarted(o, pending[i].code))
        THEN [pending[i] EXCEPT !.tag = tag]
        ELSE pending[i]]

\* the coroutines of a room are marked "gone" by the step that deletes the
\* room from the registry `rooms`: a timer or delay then sleeps for a room that
\* is no more, and a coroutine suspended in an emit holds a dict that is no
\* longer in game_rooms.  In that dict 'players' is empty, and what else the
\* coroutine will read in it is kept: current_word for start_new_round's
\* loop, and for disconnect whether the sid that left is current_drawer_sid and
\* game_started is true, which an end_game that holds the same dict and goes on
\* before it resets.  The codes of deleted rooms go from the snapshots in which
\* a disconnect walks, because the dict found there has an empty roster
Orphaned(pending, rooms, left) ==
    [i \in 1..Len(pending) |->
        LET co == [pending[i] EXCEPT !.todo = SelectSeq(@, LAMBDA c : Registered(left, c))] IN
        IF co.tag = "gone" \/ Registered(left, co.code) THEN co
        ELSE IF ~Registered(rooms, co.code) THEN [co EXCEPT !.tag = "gone"]
        ELSE [co EXCEPT
                !.tag = "gone",
                !.live = FALSE,
                !.word = IF co.at \in {"new_round", "new_round_others"}
                         THEN rooms[co.code].current_word ELSE NoWord,
                !.flag = /\ co.at = "player_left"
                         /\ rooms[co.code].current_drawer_sid = co.sid
                         /\ rooms[co.code].game_started
                         /\ ~\E j \in 1..(i - 1) :
                               /\ pending[j].at = "game_end"
                               /\ pending[j].code = co.code
                               /\ pending[j].tag # "gone"]]

\* the loops that run over room['players'] after a step with result r on the
\* registry `rooms`: a loop over a list that is no longer room['players'] sees
\* nothing of it, a loop over room['players'] sees the players join_room appends
Seen(pending, rooms, r) ==
    [i \in 1..Len(pending) |->
        LET co == pending[i] IN
        IF ~co.live THEN co
        ELSE IF co.code \in r.rebound \/ ~Registered(r.rooms, co.code)
        THEN [co EXCEPT !.live = FALSE]
        ELSE LET before == rooms[co.code].players
                 after == r.rooms[co.code].players
             IN  [co EXCEPT !.rest = @ \o SidsOf(SubSeq(after, Len(before) + 1, Len(after)))]]

\* seq with x put behind its first k entries
InsertAfter(seq, k, x) == SubSeq(seq, 1, k) \o <<x>> \o SubSeq(seq, k + 1, Len(seq))

\* position of the last entry of that kind in seq, 0 when there is none
LastOf(seq, kind) ==
    IF \E i \in 1..Len(seq) : seq[i].kind = kind
    THEN CHOOSE i \in 1..Len(seq) :
            /\ seq[i].kind = kind
            /\ \A j \in (i + 1)..Len(seq) : seq[j].kind # kind
    ELSE 0

\* `tasks` is kept in the order in which the sleeps are due, and Head(tasks)
\* is the coroutine that wakes next.  A timer sleeps 60 s, so a new timer is due
\* after every sleep there is and goes to the end.  An end_round sleeps 5 s
\* (server.py:267): it is due after the end_rounds already asleep, and after a
\* sleeping timer if that timer has 5 s or less left or is overdue, which it
\* is while the loop runs other coroutines.  How much time has gone by when
\* end_round comes to its sleep is open in every step (an emit, a handler and
\* a late wake-up take what they take), so the new sleep may be due before or
\* after any timer that is asleep.

\* the places at which an end_round that goes to sleep now may wake: behind the
\* end_rounds asleep, before or behind each timer
SleepPlaces(pending) == LastOf(pending, "sleep")..Len(pending)

\* the queue after a step in which `pending` stayed asleep and `spawn` went to
\* sleep
Schedules(pending, spawn) ==
    IF Len(spawn) = 1 /\ spawn[1].kind = "sleep"
    THEN {InsertAfter(pending, k, spawn[1]) : k \in SleepPlaces(pending)}
    ELSE {pending \o spawn}

\* list(game_rooms) after a step that turned the registry `rooms` into `left`
\* (a step registers at most one room)
Inserted(keys, rooms, left) ==
    SelectSeq(keys, LAMBDA c : Registered(left, c))
       \o (IF DOMAIN left \subseteq DOMAIN rooms THEN <<>>
           ELSE <<CHOOSE c \in DOMAIN left : ~Registered(rooms, c)>>)

\* the state after a step with result r; `sleeping` and `waiting` are the
\* coroutines that stay asleep and suspended through it
Commit(step, r, sleeping, waiting, tag) ==
    /\ game_rooms' = r.rooms
    /\ order' = Inserted(order, game_rooms, r.rooms)
    /\ tasks' \in Schedules(Retagged(Orphaned(sleeping, game_rooms, r.rooms), r.out, tag),
                            r.spawn)
    /\ awaits' = Retagged(Orphaned(Seen(waiting, game_rooms, r), game_rooms, r.rooms),
                          r.out, tag)
                    \o r.wait
    /\ last' = step
    /\ out' = r.out
    /\ fault' = r.fault
    /\ game' = [c \in Codes |-> NextGame(game[c], game_rooms, r, c)]

(* ------------------------------- actions ------------------------------- *)

\* connect(sid, environ): the transport accepts a connection and names it
connect ==
    /\ issued' = issued + 1
    /\ connected' = connected \cup {issued + 1}
    /\ last' = Step("connect", issued + 1, <<>>, "")
    /\ out' = <<Emission("connected", {issued + 1}, <<>>)>>
    /\ fault' = FALSE
    /\ UNCHANGED <<game_rooms, order, tasks, awaits, game>>

create_room(sid, raw) ==
    /\ sid \in connected
    /\ Commit(Step("create_room", sid, Upper(raw), ""),
              create_room_call(game_rooms, sid, Upper(raw)), tasks, awaits, "old")
    /\ UNCHANGED <<issued, connected>>

join_room(sid, raw) ==
    /\ sid \in connected
    /\ Commit(Step("join_room", sid, Upper(raw), ""),
              join_room_call(game_rooms, connected, sid, Upper(raw)),
              tasks, awaits, "old")
    /\ UNCHANGED <<issued, connected>>

start_game(sid, raw, word) ==
    /\ sid \in connected
    /\ Commit(Step("start_game", sid, Upper(raw), ""),
              start_game_call(game_rooms, connected, sid, Upper(raw),
                              [c \in {Upper(raw)} |-> word]),
              tasks, awaits, "old")
    /\ UNCHANGED <<issued, connected>>

send_guess(sid, raw, guess, elapsed) ==
    /\ sid \in connected
    /\ Commit([Step("send_guess", sid, Upper(raw), "") EXCEPT !.text = guess, !.elapsed = elapsed],
              send_guess_call(game_rooms, connected, sid, Upper(raw), guess, Ticks(elapsed)),
              tasks, awaits, "early")
    /\ UNCHANGED <<issued, connected>>

send_message(sid, raw, text) ==
    /\ sid \in connected
    /\ Commit(Step("send_message", sid, Upper(raw), ""),
              send_message_call(game_rooms, connected, sid, Upper(raw), text),
              tasks, awaits, "old")
    /\ UNCHANGED <<issued, connected>>

draw_stroke(sid, raw, stroke) ==
    /\ sid \in connected
    /\ Commit(Step("draw_stroke", sid, Upper(raw), ""),
              draw_stroke_call(game_rooms, connected, sid, Upper(raw), stroke),
              tasks, awaits, "old")
    /\ UNCHANGED <<issued, connected>>

clear_canvas(sid, raw) ==
    /\ sid \in connected
    /\ Commit(Step("clear_canvas", sid, Upper(raw), ""),
              clear_canvas_call(game_rooms, connected, sid, Upper(raw)),
              tasks, awaits, "old")
    /\ UNCHANGED <<issued, connected>>

\* disconnect(sid): the connection is closed when the handler runs
disconnect(sid, words) ==
    /\ sid \in connected
    /\ connected' = connected \ {sid}
    /\ Commit(Step("disconnect", sid, <<>>, ""),
              disconnect_call(game_rooms, connected \ {sid}, sid, order, words),
              tasks, awaits, "early")
    /\ UNCHANGED issued

\* the emit that was called first is over and its coroutine goes on; the
\* rounds that a send_guess or a disconnect then ends or starts are cut short
\* (a send_guess comes to end_round from its emit of guess_result, or from
\* that of correct_guess when guess_result has no recipient left)
emit_done(words) ==
    /\ awaits # <<>>
    /\ LET co == Head(awaits) IN
       Commit(Step(co.at, co.sid, co.code, co.tag),
              Resume(game_rooms, connected, co, words), tasks, Tail(awaits),
              IF \/ co.at \in {"correct_guess", "guess_result", "player_left"}
                 \/ co.from = "disconnect"
              THEN "early" ELSE "old")
    /\ UNCHANGED <<issued, connected>>

\* round_timer(room_code, 60): the sleep(60) that ends next is over, and the
\* timer goes on to end_round if the room is registered
round_timer ==
    /\ tasks # <<>>
    /\ Head(tasks).kind = "timer"
    /\ Commit(Step("round_timer", NoSid, Head(tasks).code, Head(tasks).tag),
              end_round(game_rooms, connected, Head(tasks).code, NoWords),
              Tail(tasks), awaits, "old")
    /\ UNCHANGED <<issued, connected>>

\* end_round after its sleep(5): the sleep that ends next is over, and
\* end_round goes on to start_new_round if the room is registered
end_round_resume(word) ==
    /\ tasks # <<>>
    /\ Head(tasks).kind = "sleep"
    /\ Commit(Step("end_round_resume", NoSid, Head(tasks).code, Head(tasks).tag),
              start_new_round(game_rooms, connected,
                              Suspension("", NoSid, Head(tasks).code),
                              [c \in {Head(tasks).code} |-> word]),
              Tail(tasks), awaits, "old")
    /\ UNCHANGED <<issued, connected>>

(* ---------------------------- specifications --------------------------- *)

\* data['message'] as clients send it
Messages == {<<"c", "a", "t">>}

\* the part of the state space a specification follows: that many connections,
\* roster entries, sleeping coroutines, points and rounds
Within(sids, roster, sleeping, score, round) ==
    /\ issued <= sids
    /\ Len(tasks) <= sleeping
    /\ \A c \in DOMAIN game_rooms :
          /\ Len(game_rooms[c].players) <= roster
          /\ game_rooms[c].current_round <= round
          /\ \A i \in 1..Len(game_rooms[c].players) : game_rooms[c].players[i].score <= score

\* the rosters followed hold no sid twice (a connection that joins a room it is
\* in is followed in SpecLobby, SpecAwait and SpecChat)
Apart == \A c \in DOMAIN game_rooms : Distinct(SidsOf(game_rooms[c].players))

\* the event loop takes up a handler called by the transport, or a coroutine
\* whose sleep is over, while fewer than n coroutines are suspended in an emit
Free(n) == Len(awaits) < n

\* whole games of two players
InGame == Within(GameSids, GameSids, MaxTasks, MaxScore, MAX_ROUNDS + 1) /\ Apart

Next ==
    \/ Free(MaxFlights) /\ connect /\ InGame'
    \/ Free(MaxFlights) /\ \E sid \in connected, raw \in GameCodes :
          create_room(sid, raw) /\ InGame'
    \/ Free(MaxFlights) /\ \E sid \in connected, raw \in GameCodes :
          join_room(sid, raw) /\ InGame'
    \/ Free(MaxFlights) /\ \E sid \in connected, raw \in GameCodes, word \in GameWords :
          start_game(sid, raw, word) /\ InGame'
    \/ Free(MaxFlights) /\ \E sid \in connected, raw \in GameCodes, guess \in RawGuesses,
                              elapsed \in ElapsedQuarters :
          send_guess(sid, raw, guess, elapsed) /\ InGame'
    \/ Free(MaxFlights) /\ \E sid \in connected, words \in [Codes -> GameWords] :
          disconnect(sid, words) /\ InGame'
    \/ \E words \in [Codes -> GameWords] : emit_done(words) /\ InGame'
    \/ Free(MaxFlights) /\ round_timer /\ InGame'
    \/ Free(MaxFlights) /\ \E word \in GameWords : end_round_resume(word) /\ InGame'

Spec == Init /\ [][Next]_vars

\* three players, up to the end of the first rotation
InLeave == Within(LeaveSids, LeaveSids, LeaveTasks, MaxScore, LeaveRounds) /\ Apart

NextLeave ==
    \/ Free(MaxFlights) /\ connect /\ InLeave'
    \/ Free(MaxFlights) /\ \E sid \in connected, raw \in GameCodes :
          create_room(sid, raw) /\ InLeave'
    \/ Free(MaxFlights) /\ \E sid \in connected, raw \in GameCodes :
          join_room(sid, raw) /\ InLeave'
    \/ Free(MaxFlights) /\ \E sid \in connected, raw \in GameCodes, word \in GameWords :
          start_game(sid, raw, word) /\ InLeave'
    \/ Free(MaxFlights) /\ \E sid \in connected, raw \in GameCodes, guess \in RawGuesses,
                              elapsed \in ElapsedQuarters :
          send_guess(sid, raw, guess, elapsed) /\ InLeave'
    \/ Free(MaxFlights) /\ \E sid \in connected, words \in [Codes -> GameWords] :
          disconnect(sid, words) /\ InLeave'
    \/ \E words \in [Codes -> GameWords] : emit_done(words) /\ InLeave'
    \/ Free(MaxFlights) /\ round_timer /\ InLeave'
    \/ Free(MaxFlights) /\ \E word \in GameWords : end_round_resume(word) /\ InLeave'

SpecLeave == Init /\ [][NextLeave]_vars

\* the lobby: rosters fill up to max_players (a connection may join again), one
\* start_game
InLobby == Within(LobbySids, MAX_PLAYERS + 1, 1, 0, 1)

NextLobby ==
    \/ Free(MaxFlights) /\ connect /\ InLobby'
    \/ Free(MaxFlights) /\ \E sid \in connected, raw \in RawCodes :
          create_room(sid, raw) /\ InLobby'
    \/ Free(MaxFlights) /\ \E sid \in connected, raw \in RawCodes :
          join_room(sid, raw) /\ InLobby'
    \/ Free(MaxFlights) /\ \E sid \in connected, raw \in RawCodes, word \in WORD_BANK :
          start_game(sid, raw, word) /\ InLobby'
    \/ Free(MaxFlights) /\ \E sid \in connected, words \in [Codes -> WORD_BANK] :
          disconnect(sid, words) /\ InLobby'
    \/ \E words \in [Codes -> WORD_BANK] : emit_done(words) /\ InLobby'

SpecLobby == Init /\ [][NextLobby]_vars

\* drawing: three players, the first rotation, no guesses
InCanvas ==
    /\ Within(CanvasSids, CanvasSids, LeaveTasks, 0, LeaveRounds)
    /\ Apart
    /\ \A c \in DOMAIN game_rooms : Len(game_rooms[c].strokes) <= MaxStrokes

NextCanvas ==
    \/ Free(MaxFlights) /\ connect /\ InCanvas'
    \/ Free(MaxFlights) /\ \E sid \in connected, raw \in GameCodes :
          create_room(sid, raw) /\ InCanvas'
    \/ Free(MaxFlights) /\ \E sid \in connected, raw \in GameCodes :
          join_room(sid, raw) /\ InCanvas'
    \/ Free(MaxFlights) /\ \E sid \in connected, raw \in GameCodes, word \in GameWords :
          start_game(sid, raw, word) /\ InCanvas'
    \/ Free(MaxFlights) /\ \E sid \in connected, raw \in GameCodes, stroke \in Strokes :
          draw_stroke(sid, raw, stroke) /\ InCanvas'
    \/ Free(MaxFlights) /\ \E sid \in connected, raw \in GameCodes :
          clear_canvas(sid, raw) /\ InCanvas'
    \/ Free(MaxFlights) /\ \E sid \in connected, words \in [Codes -> GameWords] :
          disconnect(sid, words) /\ InCanvas'
    \/ \E words \in [Codes -> GameWords] : emit_done(words) /\ InCanvas'
    \/ Free(MaxFlights) /\ round_timer /\ InCanvas'
    \/ Free(MaxFlights) /\ \E word \in GameWords : end_round_resume(word) /\ InCanvas'

SpecCanvas == Init /\ [][NextCanvas]_vars

\* handlers and timers that run while other coroutines are suspended in their
\* emits: two connections, the first rotation
InAwait == Within(GameSids, AwaitRoster, LeaveTasks, MaxScore, LeaveRounds)

NextAwait ==
    \/ Free(AwaitFlights) /\ connect /\ InAwait'
    \/ Free(AwaitFlights) /\ \E sid \in connected, raw \in RawCodes :
          create_room(sid, raw) /\ InAwait'
    \/ Free(AwaitFlights) /\ \E sid \in connected, raw \in RawCodes :
          join_room(sid, raw) /\ InAwait'
    \/ Free(AwaitFlights) /\ \E sid \in connected, raw \in RawCodes, word \in WORD_BANK :
          start_game(sid, raw, word) /\ InAwait'
    \/ Free(AwaitFlights) /\ \E sid \in connected, raw \in RawCodes, guess \in AwaitGuesses,
                                elapsed \in ElapsedQuarters :
          send_guess(sid, raw, guess, elapsed) /\ InAwait'
    \/ Free(AwaitFlights) /\ \E sid \in connected, words \in [Codes -> WORD_BANK] :
          disconnect(sid, words) /\ InAwait'
    \/ \E words \in [Codes -> WORD_BANK] : emit_done(words) /\ InAwait'
    \/ Free(AwaitFlights) /\ round_timer /\ InAwait'
    \/ Free(AwaitFlights) /\ \E word \in WORD_BANK : end_round_resume(word) /\ InAwait'

SpecAwait == Init /\ [][NextAwait]_vars

\* data['room_code'] as the clients of two rooms send it
ChatCodes == {<<"A">>, <<"b">>}

ChatRooms == {Upper(raw) : raw \in ChatCodes}

\* chat: three connections, two rooms in the lobby
InChat == Within(ChatSids, ChatSids, 0, 0, 0)

NextChat ==
    \/ Free(MaxFlights) /\ connect /\ InChat'
    \/ Free(MaxFlights) /\ \E sid \in connected, raw \in ChatCodes :
          create_room(sid, raw) /\ InChat'
    \/ Free(MaxFlights) /\ \E sid \in connected, raw \in ChatCodes :
          join_room(sid, raw) /\ InChat'
    \/ Free(MaxFlights) /\ \E sid \in connected, raw \in ChatCodes, text \in Messages :
          send_message(sid, raw, text) /\ InChat'
    \/ Free(MaxFlights) /\ \E sid \in connected, words \in [ChatRooms -> WORD_BANK] :
          disconnect(sid, words) /\ InChat'
    \/ \E words \in [ChatRooms -> WORD_BANK] : emit_done(words) /\ InChat'

SpecChat == Init /\ [][NextChat]_vars

\* the game specification with the event loop's scheduling: a coroutine whose
\* emit or sleep is over is resumed
SpecFair ==
    /\ Spec
    /\ WF_vars(\E words \in [Codes -> GameWords] : emit_done(words) /\ InGame')
    /\ WF_vars(Free(MaxFlights) /\ round_timer /\ InGame')
    /\ WF_vars(Free(MaxFlights) /\ \E word \in GameWords : end_round_resume(word) /\ InGame')

\* a round in progress: sid 1 has created room A, sid 2 has joined, sid 1 has
\* started the game and draws "cat"
ScoreCode == Upper(<<"a">>)

ScoreWords == [c \in {ScoreCode} |-> <<"c", "a", "t">>]

ScoreLobby ==
    Finish(join_room_call(create_room_call(<<>>, 1, ScoreCode).rooms, {1, 2}, 2, ScoreCode),
           {1, 2}, NoWords).rooms

ScoreStart == Finish(start_game_call(ScoreLobby, {1, 2}, 1, ScoreCode, ScoreWords), {1, 2}, ScoreWords)

InitScore ==
    /\ game_rooms = ScoreStart.rooms
    /\ order = <<ScoreCode>>
    /\ issued = 2
    /\ connected = {1, 2}
    /\ tasks \in Schedules(<<>>, ScoreStart.spawn)
    /\ awaits = <<>>
    /\ last = Step("new_round_others", 1, ScoreCode, "cur")
    /\ out = <<>>
    /\ fault = FALSE
    /\ game = [c \in Codes |-> NextGame(NoGame, ScoreLobby, ScoreStart, c)]

\* the first guess of the round, arriving at any quarter of a second
NextScore ==
    \E sid \in connected, raw \in RawCodes, guess \in RawGuesses, elapsed \in 0..MaxQuarters :
       awaits = <<>> /\ last.op # "send_guess" /\ send_guess(sid, raw, guess, elapsed)

SpecScore == InitScore /\ [][NextScore]_vars

TypeOK ==
    /\ DOMAIN game_rooms \subseteq Codes \cup ChatRooms
    /\ connected \subseteq 1..issued
    /\ Len(tasks) <= MaxTasks

(* ------------------------------- claims -------------------------------- *)

\* the room the last step was addressed to, before and after the step
Before == game_rooms[last'.code]

After == game_rooms'[last'.code]

ErrorOnlyTo(o, sid) ==
    /\ Len(o) = 1
    /\ o[1].ev = "error"
    /\ o[1].to = {sid}

\* C1: for an existing room, join_room appends the joiner (is_host false,
\* score 0, at the end of the roster) exactly when the roster is below
\* max_players and the game has not started, and sends the joiner room_joined
\* with that roster; otherwise the joiner gets an error and the registry is
\* unchanged.
C1_JoinIff ==
    [][(last'.op = "join_room" /\ Registered(game_rooms, last'.code)) =>
          IF Len(Before.players) < Before.max_players /\ ~Before.game_started
          THEN /\ Registered(game_rooms', last'.code)
               /\ After = [Before EXCEPT !.players =
                              Append(@, [sid |-> last'.sid, score |-> 0, is_host |-> FALSE])]
               /\ Len(out') = 1
               /\ out'[1].ev = "room_joined"
               /\ out'[1].to = {last'.sid}
               /\ out'[1].players = After.players
          ELSE /\ game_rooms' = game_rooms
               /\ awaits' = awaits
               /\ ErrorOnlyTo(out', last'.sid)]_vars

\* a join was refused because the roster had reached max_players
C1_Witness ==
    /\ last.op = "join_room"
    /\ Registered(game_rooms, last.code)
    /\ Len(game_rooms[last.code].players) = MAX_PLAYERS
    /\ ~game_rooms[last.code].game_started
    /\ ErrorOnlyTo(out, last.sid)

\* C2: create_room with a registered code emits an error to the sender only and
\* leaves the registry unchanged; with an unregistered code it registers a room
\* in Lobby state (not started, round 0, drawer index 0, no word) whose roster
\* is the creator alone, host, score 0.
C2_CreateRoom ==
    [][last'.op = "create_room" =>
          IF Registered(game_rooms, last'.code)
          THEN /\ game_rooms' = game_rooms
               /\ ErrorOnlyTo(out', last'.sid)
          ELSE /\ Registered(game_rooms', last'.code)
               /\ \A c \in DOMAIN game_rooms : game_rooms'[c] = game_rooms[c]
               /\ After.players = <<[sid |-> last'.sid, score |-> 0, is_host |-> TRUE]>>
               /\ ~After.game_started
               /\ After.current_round = 0
               /\ After.current_drawer_index = 0
               /\ After.current_word = NoWord]_vars

\* a create_room for the code of a room with two players and a started game was refused
C2_Witness ==
    /\ last.op = "create_room"
    /\ ErrorOnlyTo(out, last.sid)
    /\ Registered(game_rooms, last.code)
    /\ Len(game_rooms[last.code].players) = 2
    /\ game_rooms[last.code].game_started

\* start_game has run in the room and no round has started in it yet: every
\* other round field still has the value create_room gave it
FreshStarted(room) ==
    room = [NewRoom(NoSid) EXCEPT !.players = room.players,
                                  !.game_started = TRUE,
                                  !.current_round = 1]

\* C3: start_game on a Lobby room succeeds exactly when the sender is the host
\* and the roster has at least 2 players.  On success game_started is true,
\* current_round is 1 and game_started goes to the room, before any new_round;
\* when start_game then goes on in a room in which no round has started yet,
\* the drawer is players[0], who is sent new_round with the word.  On failure
\* the sender gets an error, the registry is unchanged, no timer is scheduled
\* and no coroutine is left that could start a round.
C3_StartGame ==
    /\ [][(/\ last'.op = "start_game"
           /\ Registered(game_rooms, last'.code)
           /\ ~Before.game_started) =>
             IF /\ \E i \in 1..Len(Before.players) :
                      Before.players[i].sid = last'.sid /\ Before.players[i].is_host
                /\ Len(Before.players) >= 2
             THEN /\ After = [Before EXCEPT !.game_started = TRUE, !.current_round = 1]
                  /\ Len(out') >= 1
                  /\ out'[1].ev = "game_started"
                  /\ out'[1].to = Members(Before.players) \cap connected
                  /\ \A i \in 1..Len(out') : out'[i].ev = "new_round" => i > 1
             ELSE /\ game_rooms' = game_rooms
                  /\ ErrorOnlyTo(out', last'.sid)
                  /\ tasks' = tasks
                  /\ awaits' = awaits]_vars
    /\ [][(/\ last'.op = "game_started"
           /\ Registered(game_rooms, last'.code)
           /\ FreshStarted(Before)) =>
             /\ After.current_drawer_sid = Before.players[1].sid
             /\ After.current_word \in WORD_BANK
             /\ Len(out') >= 1
             /\ out'[1].ev = "new_round"
             /\ out'[1].to = {Before.players[1].sid}
             /\ out'[1].word = After.current_word]_vars

\* the host of a freshly created room of two has started the game, game_started
\* has gone out, and the host draws first
C3_Witness ==
    /\ last.op = "game_started"
    /\ Registered(game_rooms, last.code)
    /\ game_rooms[last.code].game_started
    /\ game_rooms[last.code].current_round = 1
    /\ Len(game_rooms[last.code].players) = 2
    /\ Len(out) = 1
    /\ out[1].ev = "new_round"
    /\ out[1].to = {last.sid}
    /\ game_rooms[last.code].current_drawer_sid = last.sid
    /\ game_rooms[last.code].players[1].sid = last.sid

\* C4: a start_game sent by the host while game_started is already true changes
\* nothing: current_round is not reset, no round starts, no word is picked and
\* no further timer is scheduled, neither at once nor when the handler goes on
\* after an emit.
C4_StartOnlyInLobby ==
    /\ [][(/\ last'.op = "start_game"
           /\ Registered(game_rooms, last'.code)
           /\ Before.game_started
           /\ \E i \in 1..Len(Before.players) :
                 Before.players[i].sid = last'.sid /\ Before.players[i].is_host) =>
             /\ game_rooms' = game_rooms
             /\ tasks' = tasks
             /\ \A i \in 1..Len(out') : out'[i].ev # "new_round"]_vars
    /\ [][(last'.op = "game_started" /\ game[last'.code].restarted) =>
             /\ game_rooms' = game_rooms
             /\ tasks' = tasks
             /\ \A i \in 1..Len(out') : out'[i].ev # "new_round"]_vars

\* C5: the deadline timer of a round that was cut short (every player guessed,
\* or the drawer left) is a no-op when it fires: no round_end, no points, no
\* drawer advance, no start of a round.
C5_StaleTimerNoOp ==
    [][(last'.op = "round_timer" /\ last'.tag = "early") =>
          /\ game_rooms' = game_rooms
          /\ out' = <<>>
          /\ tasks' = Tail(tasks)
          /\ awaits' = awaits]_vars

\* C6: when send_guess, after a correct guess, comes to its test of whether all
\* players have guessed, and every player of the roster but the drawer is in
\* guessed_players (the drawer being in the roster), it ends the round there
\* and then, also after players have left during the round.
C6_AllGuessedEndsRound ==
    [][(/\ last'.op = "guess_result"
        /\ last'.tag # "gone"
        /\ Registered(game_rooms, last'.code)
        /\ InSeq(Before.guessed_players, last'.sid)
        /\ HasSid(Before.players, Before.current_drawer_sid)
        /\ \A i \in 1..Len(Before.players) :
              \/ Before.players[i].sid = Before.current_drawer_sid
              \/ InSeq(Before.guessed_players, Before.players[i].sid)) =>
          Emitted(out', "round_end", last'.code)]_vars

\* C7: when the drawer of a started game has disconnected and players remain,
\* the disconnect, once player_left is out, runs EndRound for the interrupted
\* round before any round starts: round_end carries the word and the players
\* who had guessed get their 100 points.
C7_DrawerLeftEndsRound ==
    [][(/\ last'.op = "player_left"
        /\ last'.tag # "gone"
        /\ Registered(game_rooms, last'.code)
        /\ Registered(game_rooms', last'.code)
        /\ Before.game_started
        /\ Before.current_drawer_sid = last'.sid) =>
          /\ \E i \in 1..Len(out') :
                /\ out'[i].ev = "round_end"
                /\ out'[i].code = last'.code
                /\ out'[i].word = Before.current_word
                /\ \A j \in 1..(i - 1) : out'[j].ev # "new_round"
          /\ \A i \in 1..Len(After.players) :
                InSeq(Before.guessed_players, After.players[i].sid) =>
                   After.players[i].score = Before.players[i].score + GUESSER_AWARD]_vars

\* C8: while the roster stays the same, the drawer of each round of a game is
\* the successor, in join order, of the drawer of the round before, and
\* current_round goes up by one exactly when the rotation wraps to players[0].
C8_Rotation ==
    [][\A c \in DOMAIN game_rooms \cap DOMAIN game_rooms' :
          (/\ RoundStarted(out', c)
           /\ last'.op # "game_started"
           /\ game_rooms[c].game_started
           /\ game_rooms'[c].game_started
           /\ game[c].rounds >= 1
           /\ game[c].ends = 0
           /\ ~game[c].restarted
           /\ game[c].prev_roster = SidsOf(game_rooms[c].players)
           /\ SidsOf(game_rooms'[c].players) = SidsOf(game_rooms[c].players)
           /\ Distinct(SidsOf(game_rooms[c].players))) =>
             LET n == Len(game_rooms[c].players)
                 prev == FirstWithSid(game_rooms[c].players, game_rooms[c].current_drawer_sid)
                 new == FirstWithSid(game_rooms'[c].players, game_rooms'[c].current_drawer_sid)
             IN  /\ new = (prev % n) + 1
                 /\ game_rooms'[c].current_round =
                       game[c].prev_round + (IF new = 1 THEN 1 ELSE 0)]_vars

\* C9: in a started game game_end is emitted once, and only after max_rounds
\* full rotations of the drawer, with the roster as it is; when end_game goes
\* on after that emit every score is reset to 0, game_started is false,
\* current_round and current_drawer_index are 0 and the roster is the same.
C9_GameEndOnce ==
    /\ [][\A c \in DOMAIN game_rooms :
            (Emitted(out', "game_end", c) /\ game[c].started /\ ~game[c].restarted) =>
               /\ game[c].ends = 0
               /\ game[c].roster0 = SidsOf(game_rooms[c].players) =>
                     game[c].rounds >= MAX_ROUNDS * Len(game_rooms[c].players)
               /\ Registered(game_rooms', c)
               /\ SidsOf(game_rooms'[c].players) = SidsOf(game_rooms[c].players)]_vars
    /\ [][(/\ last'.op = "game_end"
           /\ last'.tag # "gone"
           /\ Registered(game_rooms, last'.code)) =>
             /\ Registered(game_rooms', last'.code)
             /\ ~After.game_started
             /\ After.current_round = 0
             /\ After.current_drawer_index = 0
             /\ SidsOf(After.players) = SidsOf(Before.players)
             /\ \A i \in 1..Len(After.players) : After.players[i].score = 0]_vars

\* C10: of the new_round emissions of a round, the one to the round's drawer
\* carries the secret word and every other one a run of underscores of the
\* word's length; before round_end no emission to anyone but the drawer
\* carries the secret word in its word field, and no chat_message made from a
\* guess carries it.  (The text relayed by send_message is what a client
\* typed; an emission to closed connections only reaches nobody.)
C10_MaskedWord ==
    \A i \in 1..Len(out) :
       (/\ Registered(game_rooms, out[i].code)
        /\ out[i].ev # "round_end"
        /\ out[i].to \cap connected # {}) =>
          LET room == game_rooms[out[i].code] IN
          /\ out[i].ev = "new_round" =>
                IF out[i].to = {out[i].drawer}
                THEN out[i].word = room.current_word
                ELSE /\ Len(out[i].word) = Len(room.current_word)
                     /\ \A k \in 1..Len(out[i].word) : out[i].word[k] = "_"
          /\ (/\ room.current_word # NoWord
              /\ \/ out[i].word = room.current_word
                 \/ last.op # "send_message" /\ out[i].text = room.current_word) =>
                out[i].to = {room.current_drawer_sid}

\* a round is on, its drawer has the word, and start_new_round has gone on to
\* send a player who is not the drawer the word in underscores
C10_Witness ==
    /\ last.op = "new_round"
    /\ Registered(game_rooms, last.code)
    /\ game_rooms[last.code].current_word \in WORD_BANK
    /\ Len(out) = 1
    /\ out[1].ev = "new_round"
    /\ out[1].drawer = game_rooms[last.code].current_drawer_sid
    /\ out[1].to # {out[1].drawer}
    /\ out[1].to \subseteq connected
    /\ out[1].word = Underscores(Len(game_rooms[last.code].current_word))

Max(a, b) == IF a > b THEN a ELSE b

\* floor(e) for an e of that many quarters of a second
Floor(quarters) == quarters \div 4

\* C11: the speed points of a correct guess made e seconds into the round are
\* max(50, 200 - 2*floor(e)), for every e, whole or not.
C11_SpeedPoints ==
    \A i \in 1..Len(out) :
       (last.op = "send_guess" /\ out[i].ev = "correct_guess") =>
          out[i].points = Max(MIN_POINTS, BASE_POINTS - 2 * Floor(last.elapsed))

\* a round that started in room c goes on and nobody has guessed
Unguessed(c) ==
    /\ Registered(game_rooms, c)
    /\ game_rooms[c].game_started
    /\ game_rooms[c].guessed_players = <<>>
    /\ \E i \in 1..Len(tasks) : tasks[i].kind = "timer" /\ tasks[i].code = c /\ tasks[i].tag = "cur"

\* the round's own timer has ended it
TimedOut(c) ==
    /\ last.op = "round_timer"
    /\ last.code = c
    /\ last.tag = "cur"
    /\ Emitted(out, "round_end", c)

\* C12: a round in which nobody guesses ends through its own deadline timer
\* (unless the room goes away): the round_end of a round without guessers comes
\* from that timer and changes no score, and it does come.
C12_TimeoutEndsRound ==
    /\ [][\A c \in DOMAIN game_rooms :
            (/\ Emitted(out', "round_end", c)
             /\ game_rooms[c].guessed_players = <<>>
             /\ ~game[c].restarted
             /\ last'.op = "round_timer") =>
               /\ last'.tag = "cur"
               /\ Registered(game_rooms', c)
               /\ game_rooms'[c].players = game_rooms[c].players]_vars
    /\ \A c \in Codes :
          Unguessed(c) ~> (\/ TimedOut(c)
                           \/ ~Registered(game_rooms, c)
                           \/ game_rooms[c].guessed_players # <<>>)

\* the round_end emission for room c among the emissions o
RoundEnd(o, c) == o[CHOOSE i \in 1..Len(o) : o[i].ev = "round_end" /\ o[i].code = c]

\* C13: an end_round adds 100 to every player of guessed_players who is in the
\* roster, 50 to the drawer exactly when guessed_players is not empty, and
\* nothing to anybody else; round_end carries those scores.
C13_EndRoundAwards ==
    [][\A c \in DOMAIN game_rooms :
          (Emitted(out', "round_end", c) /\ Distinct(SidsOf(game_rooms[c].players))) =>
             LET room == game_rooms[c]
                 scored == RoundEnd(out', c).players
             IN  /\ Registered(game_rooms', c)
                 /\ game_rooms'[c].players = scored
                 /\ Len(scored) = Len(room.players)
                 /\ \A i \in 1..Len(scored) :
                       /\ scored[i].sid = room.players[i].sid
                       /\ scored[i].score =
                             room.players[i].score
                             + (IF InSeq(room.guessed_players, scored[i].sid)
                                THEN GUESSER_AWARD ELSE 0)
                             + (IF /\ scored[i].sid = room.current_drawer_sid
                                   /\ room.guessed_players # <<>>
                                THEN DRAWER_BONUS ELSE 0)]_vars

\* a timer has ended a round of three in which one player had guessed: the
\* guesser has 200 + 100, the drawer 50, the third player nothing
C13_Witness ==
    /\ last.op = "round_timer"
    /\ Emitted(out, "round_end", last.code)
    /\ LET scored == RoundEnd(out, last.code).players
       IN  /\ Len(scored) = 3
           /\ {scored[i].score : i \in 1..3} = {0, DRAWER_BONUS, BASE_POINTS + GUESSER_AWARD}

\* C14: a send_guess from the current drawer or from a player who has guessed
\* in this round changes nothing, emits nothing and leaves no coroutine
\* behind; so speed points go only to a sender who is not the drawer and has
\* not guessed yet, and who is in guessed_players from then on.
C14_GuessOnce ==
    [][(last'.op = "send_guess" /\ Registered(game_rooms, last'.code)) =>
          /\ (\/ Before.current_drawer_sid = last'.sid
              \/ InSeq(Before.guessed_players, last'.sid)) =>
                /\ game_rooms' = game_rooms
                /\ out' = <<>>
                /\ tasks' = tasks
                /\ awaits' = awaits
                /\ ~fault'
          /\ IF Emitted(out', "correct_guess", last'.code)
             THEN /\ Before.current_drawer_sid # last'.sid
                  /\ ~InSeq(Before.guessed_players, last'.sid)
                  /\ After.guessed_players = Append(Before.guessed_players, last'.sid)
                  /\ \A i \in 1..Len(Before.players) :
                        After.players[i].score =
                           Before.players[i].score
                           + (IF i = FirstWithSid(Before.players, last'.sid)
                              THEN out'[1].points ELSE 0)
             ELSE game_rooms' = game_rooms]_vars

\* a player of a roster of three who had guessed already has guessed again
C14_Witness ==
    /\ last.op = "send_guess"
    /\ out = <<>>
    /\ Registered(game_rooms, last.code)
    /\ InSeq(game_rooms[last.code].guessed_players, last.sid)
    /\ Len(game_rooms[last.code].players) = 3

\* what str.lower() and then str.strip() make of the guesses the clients
\* send, written out character by character
Relayed(text) ==
    CASE text = <<"\t", "C", "A", "T", " ">> -> <<"c", "a", "t">>
      [] text = <<"t", "r", "e", "e">> -> <<"t", "r", "e", "e">>
      [] text = LatinGuess -> <<"é">>

\* C15: in a room with a word, a guess that does not match it, from a roster
\* player who is not the drawer and has not guessed, is relayed as chat_message
\* to the room and then answered with guess_result correct = false; the room
\* (scores, guessed_players, word, drawer, counters) and the sleeping
\* coroutines stay as they are and no round ends.  (The words of the bank are
\* in small letters, so a guess matches when what is relayed is the word.)
C15_WrongGuess ==
    /\ [][(/\ last'.op = "send_guess"
           /\ Registered(game_rooms, last'.code)
           /\ HasSid(Before.players, last'.sid)
           /\ Before.current_drawer_sid # last'.sid
           /\ ~InSeq(Before.guessed_players, last'.sid)
           /\ Before.current_word # NoWord
           /\ Relayed(last'.text) # Before.current_word) =>
             /\ game_rooms' = game_rooms
             /\ tasks' = tasks
             /\ ~fault'
             /\ Len(out') = 1
             /\ out'[1].ev = "chat_message"
             /\ out'[1].to = Members(Before.players) \cap connected
             /\ out'[1].text = Relayed(last'.text)]_vars
    /\ [][last'.op = "chat_message" =>
             /\ game_rooms' = game_rooms
             /\ tasks' = tasks
             /\ ~fault'
             /\ Len(out') = 1
             /\ out'[1].ev = "guess_result"
             /\ out'[1].to = {last'.sid}
             /\ ~out'[1].correct]_vars

\* "\tCAT " was guessed while the word was "tree", and was relayed as "cat"
C15_Witness ==
    /\ last.op = "send_guess"
    /\ last.text = <<"\t", "C", "A", "T", " ">>
    /\ Registered(game_rooms, last.code)
    /\ game_rooms[last.code].current_word = <<"t", "r", "e", "e">>
    /\ Len(out) = 1
    /\ out[1].ev = "chat_message"
    /\ out[1].text = <<"c", "a", "t">>

\* the sids of the roster other than sid, in roster order
Others(sids, sid) == SelectSeq(sids, LAMBDA s : s # sid)

\* the recipients of the emissions o, each sent to one connection, in order
Sent(o) == [i \in 1..Len(o) |-> CHOOSE s \in o[i].to : TRUE]

\* the players a draw_stroke that has just run has still to relay to: those
\* its coroutine, the youngest of the suspended ones, keeps
Unsent(suspended, before, sid) ==
    IF Len(suspended) > before THEN Others(suspended[Len(suspended)].rest, sid) ELSE <<>>

\* C16: draw_stroke and clear_canvas from anyone but current_drawer_sid change
\* nothing and emit nothing.  From the drawer, draw_stroke appends the stroke
\* and sends stroke_drawn, with that stroke, once to every roster player but
\* the drawer, one after the other; clear_canvas empties strokes and sends
\* canvas_cleared to the room.
C16_Canvas ==
    /\ [][(last'.op \in {"draw_stroke", "clear_canvas"} /\ Registered(game_rooms, last'.code)) =>
             /\ tasks' = tasks
             /\ ~fault'
             /\ IF Before.current_drawer_sid # last'.sid
                THEN game_rooms' = game_rooms /\ out' = <<>> /\ awaits' = awaits
                ELSE IF last'.op = "draw_stroke"
                THEN /\ \E stroke \in Strokes :
                           /\ game_rooms' = [game_rooms EXCEPT ![last'.code].strokes =
                                                Append(@, stroke)]
                           /\ \A i \in 1..Len(out') :
                                 out'[i].ev = "stroke_drawn" /\ out'[i].stroke = stroke
                     /\ \A i \in 1..Len(out') :
                           Cardinality(out'[i].to) = 1 /\ last'.sid \notin out'[i].to
                     /\ Sent(out') \o Unsent(awaits', Len(awaits), last'.sid) =
                           Others(SidsOf(Before.players), last'.sid)
                ELSE /\ game_rooms' = [game_rooms EXCEPT ![last'.code].strokes = <<>>]
                     /\ Len(out') = 1
                     /\ out'[1].ev = "canvas_cleared"
                     /\ out'[1].to = Members(Before.players) \cap connected]_vars
    /\ [][last'.op = "stroke_drawn" =>
             /\ game_rooms' = game_rooms
             /\ tasks' = tasks
             /\ ~fault'
             /\ \A i \in 1..Len(out') :
                   /\ out'[i].ev = "stroke_drawn"
                   /\ out'[i].stroke = Head(awaits).stroke
                   /\ Cardinality(out'[i].to) = 1
                   /\ last'.sid \notin out'[i].to
             /\ Sent(out') \o Unsent(awaits', Len(awaits) - 1, last'.sid) =
                   Others(Head(awaits).rest, last'.sid)]_vars

\* the drawer of a room of three has drawn a second stroke, and the relay has
\* come to the player who joined last
C16_Witness ==
    /\ last.op = "stroke_drawn"
    /\ Registered(game_rooms, last.code)
    /\ Len(game_rooms[last.code].players) = 3
    /\ Len(game_rooms[last.code].strokes) = 2
    /\ game_rooms[last.code].current_drawer_sid = last.sid
    /\ Len(out) = 1
    /\ out[1].ev = "stroke_drawn"
    /\ out[1].stroke = game_rooms[last.code].strokes[2]
    /\ out[1].to = {game_rooms[last.code].players[3].sid}

\* the game_end emission for room c among the emissions o
GameEnd(o, c) == o[CHOOSE i \in 1..Len(o) : o[i].ev = "game_end" /\ o[i].code = c]

\* C17: game_end lists the whole roster, with the scores the players have when
\* it is emitted, by descending score, players of equal score in join order;
\* the reset to 0 comes when end_game goes on after the emit.
C17_GameEndSorted ==
    /\ [][\A c \in DOMAIN game_rooms :
            (Emitted(out', "game_end", c) /\ Distinct(SidsOf(game_rooms[c].players))) =>
               LET final == game_rooms[c].players
                   listed == GameEnd(out', c).players
               IN  /\ Registered(game_rooms', c)
                   /\ game_rooms'[c].players = final
                   /\ Len(listed) = Len(final)
                   /\ \A i \in 1..Len(final) : \E j \in 1..Len(listed) : listed[j] = final[i]
                   /\ \A i, j \in 1..Len(listed) :
                         i < j =>
                            \/ listed[i].score > listed[j].score
                            \/ /\ listed[i].score = listed[j].score
                               /\ FirstWithSid(final, listed[i].sid)
                                     < FirstWithSid(final, listed[j].sid)]_vars
    /\ [][(/\ last'.op = "game_end"
           /\ last'.tag # "gone"
           /\ Registered(game_rooms, last'.code)) =>
             \A i \in 1..Len(After.players) : After.players[i].score = 0]_vars

\* a game has ended in which the player who joined second has more points
\* than the host and is listed first
C17_Witness ==
    /\ Registered(game_rooms, last.code)
    /\ Emitted(out, "game_end", last.code)
    /\ LET listed == GameEnd(out, last.code).players
       IN  /\ Len(listed) = 2
           /\ listed[1].score > listed[2].score
           /\ listed[1].sid = game_rooms[last.code].players[2].sid

\* C18: a round_timer, end_round or start_new_round that goes on after the
\* room has been deleted, be it after a sleep or after an emit, raises
\* nothing, changes no room and sends nothing to anybody.
C18_GoneRoomNoOp ==
    [][(/\ last'.op \in {"round_timer", "end_round_resume", "round_end", "game_end",
                         "new_round", "new_round_others"}
        /\ ~Registered(game_rooms, last'.code)) =>
          /\ ~fault'
          /\ game_rooms' = game_rooms
          /\ \A i \in 1..Len(out') : out'[i].to \cap connected = {}]_vars

\* C19: send_guess never raises: a guess from a sender who is not in the
\* roster, or from a roster member of a room whose current_word is still
\* None, emits nothing and changes nothing.
C19_GuessNeverFaults ==
    [][(last'.op = "send_guess") =>
          /\ ~fault'
          /\ (/\ Registered(game_rooms, last'.code)
              /\ \/ ~HasSid(game_rooms[last'.code].players, last'.sid)
                 \/ game_rooms[last'.code].current_word = NoWord) =>
                (game_rooms' = game_rooms /\ tasks' = tasks /\ out' = <<>>)]_vars

\* C20: each round is ended at most once: whenever end_round applies its
\* effects in a room (it emits round_end), a round has been started in that room
\* and no end_round has applied its effects since.
C20_RoundEndedOnce ==
    [][\A c \in Codes :
          (Emitted(out', "round_end", c) /\ ~game[c].restarted) => game[c].open]_vars

\* C21: while a room is back in the lobby after a game_end, and until a
\* start_game succeeds, no round is ended or started in it: no round_end and no
\* new_round is emitted, no word is assigned, every score stays 0 and
\* current_round and current_drawer_index stay 0.
C21_LobbyAfterGameEnd ==
    [][\A c \in DOMAIN game_rooms \cap DOMAIN game_rooms' :
          (/\ game[c].ends >= 1
           /\ ~game[c].restarted
           /\ ~game_rooms[c].game_started
           /\ ~Emitted(out', "game_started", c)) =>
             /\ ~Emitted(out', "round_end", c)
             /\ ~Emitted(out', "new_round", c)
             /\ game_rooms'[c].current_word = game_rooms[c].current_word
             /\ game_rooms'[c].current_round = 0
             /\ game_rooms'[c].current_drawer_index = 0
             /\ \A i \in 1..Len(game_rooms'[c].players) :
                   game_rooms'[c].players[i].score = 0]_vars

\* C22: a timer or inter-round delay of a room that has been deleted acts on
\* no room when it is over, also when a room has been created under the same
\* code meanwhile: nothing is changed, nothing is emitted and no round starts.
C22_GoneRoomTimer ==
    [][(/\ last'.op \in {"round_timer", "end_round_resume"}
        /\ last'.tag = "gone") =>
          /\ game_rooms' = game_rooms
          /\ out' = <<>>
          /\ tasks' = Tail(tasks)
          /\ awaits' = awaits]_vars

\* C23: in every registered room current_drawer_index is an index of the
\* roster, 0 <= current_drawer_index < len(players), so that the lookup
\* players[current_drawer_index] of start_new_round is always defined.
C23_DrawerIndexInBounds ==
    \A c \in DOMAIN game_rooms :
       /\ game_rooms[c].current_drawer_index >= 0
       /\ game_rooms[c].current_drawer_index < Len(game_rooms[c].players)

\* C24: during a round of a started game whose drawer is in the roster,
\* players[current_drawer_index] is the current drawer, also after a player
\* who is not the drawer has been removed from the roster.
C24_IndexIsDrawer ==
    \A c \in DOMAIN game_rooms :
       (/\ game_rooms[c].game_started
        /\ game[c].open
        /\ ~game[c].restarted
        /\ HasSid(game_rooms[c].players, game_rooms[c].current_drawer_sid)) =>
          /\ game_rooms[c].current_drawer_index < Len(game_rooms[c].players)
          /\ game_rooms[c].players[game_rooms[c].current_drawer_index + 1].sid =
                game_rooms[c].current_drawer_sid

\* C25: current_word is None whenever no round is in progress (before the
\* first round, between a round_end and the next new_round, after game_end) and
\* an entry of WORD_BANK during a round.
C25_WordOnlyInRound ==
    \A c \in DOMAIN game_rooms :
       IF game[c].open
       THEN game_rooms[c].current_word \in WORD_BANK
       ELSE game_rooms[c].current_word = NoWord

\* C26: every sid in guessed_players is the sid of a player in the roster of
\* the room.
C26_GuessedInRoster ==
    \A c \in DOMAIN game_rooms :
       \A i \in 1..Len(game_rooms[c].guessed_players) :
          HasSid(game_rooms[c].players, game_rooms[c].guessed_players[i])

\* C27: guessed_players never holds the sid of the current drawer and holds
\* no sid twice, also after the drawer has changed at the start of a round or
\* because the drawer left.
C27_GuessersNotDrawer ==
    \A c \in DOMAIN game_rooms :
       /\ Distinct(game_rooms[c].guessed_players)
       /\ \A i \in 1..Len(game_rooms[c].guessed_players) :
             game_rooms[c].guessed_players[i] # game_rooms[c].current_drawer_sid

\* a correct guess in a round whose drawer is not the first drawer of the game
C27_Witness ==
    \E c \in DOMAIN game_rooms :
       /\ game_rooms[c].guessed_players # <<>>
       /\ game[c].rounds >= 2
       /\ game[c].roster0 # <<>>
       /\ game_rooms[c].current_drawer_sid # game[c].roster0[1]

\* C28: the sids of a roster are pairwise different, whatever create_room and
\* join_room events arrive, the same connection joining the same room more than
\* once included.
C28_UniqueSids ==
    \A c \in DOMAIN game_rooms : Distinct(SidsOf(game_rooms[c].players))

\* C29: every registered room has exactly one player with is_host true, also
\* after the player who created the room has disconnected and others remain.
C29_OneHost ==
    \A c \in DOMAIN game_rooms :
       Cardinality({i \in 1..Len(game_rooms[c].players) : game_rooms[c].players[i].is_host}) = 1

\* C30: no registered room has an empty roster: the disconnect that removes
\* the last player of a room deletes the room in the same step, and a
\* create_room for its code then succeeds.
C30_NoEmptyRoom ==
    /\ [](\A c \in DOMAIN game_rooms : game_rooms[c].players # <<>>)
    /\ [][\A c \in DOMAIN game_rooms :
            (/\ last'.op = "disconnect"
             /\ \A i \in 1..Len(game_rooms[c].players) :
                   game_rooms[c].players[i].sid = last'.sid) =>
               ~Registered(game_rooms', c)]_vars
    /\ [][(last'.op = "create_room" /\ ~Registered(game_rooms, last'.code)) =>
            /\ Registered(game_rooms', last'.code)
            /\ SidsOf(After.players) = <<last'.sid>>]_vars

\* a room has been created under the code of a room that the disconnect of its
\* last player deleted while its round timer was asleep
C30_Witness ==
    /\ last.op = "create_room"
    /\ Registered(game_rooms, last.code)
    /\ SidsOf(game_rooms[last.code].players) = <<last.sid>>
    /\ \E i \in 1..Len(tasks) : tasks[i].code = last.code /\ tasks[i].tag = "gone"

\* C31: send_message emits chat_message to a room only when the sender is in
\* the roster of that room; a connection that is in another room, or in no
\* room, has nothing broadcast into the room.
C31_ChatFromMember ==
    [][(last'.op = "send_message") =>
          \A i \in 1..Len(out') :
             out'[i].ev = "chat_message" =>
                /\ Registered(game_rooms, out'[i].code)
                /\ HasSid(game_rooms[out'[i].code].players, last'.sid)]_vars

\* a started game in room c
Playing(c) == Registered(game_rooms, c) /\ game_rooms[c].game_started

\* C32: no interleaving of guesses, timers and disconnects leaves a started
\* game with nothing pending: there is a timer or a delay of its room asleep,
\* or a coroutine suspended in an emit that has still to go on; it is those
\* that end every round and bring the game to game_end and back to the lobby.
C32_GameProgress ==
    \A c \in Codes :
       Playing(c) =>
          \/ \E i \in 1..Len(tasks) : tasks[i].code = c /\ tasks[i].tag # "gone"
          \/ awaits # <<>>

====
